---- MODULE Spec2Model ----
(***************************************************************************)
(* A model of laser_frame (src/src/lib.rs): the Streamer state machine and *)
(* the Points iterator that borrows its fields.                            *)
(*                                                                         *)
(* Rust indices are 0-based, TLA+ sequences are 1-based: the element the   *)
(* code reads as points[ix] is written pts[ix + 1] here.                   *)
(***************************************************************************)
EXTENDS Integers, Sequences, FiniteSets, TLC

\* ---------------------------------------------------------------- bounds
MaxPoint == 2       \* point payloads are 1..MaxPoint
MaxLen == 2         \* longest frame submitted
MaxOps == 6         \* submit_frame calls plus pulls recorded in the log
MaxSubmits == 2     \* submit_frame calls

\* ---------------------------------------------------------------- values
\* The payload type P.
P == 1..MaxPoint

\* n consecutive payloads starting at a.
Run(a, n) == [i \in 1..n |-> a + i - 1]

\* Vec<P> values a caller passes in. The code never inspects a payload (P is
\* only cloned), so frames are drawn with pairwise distinct points, which
\* makes the positions within a frame distinguishable; two frames may share
\* points or not.
Frames == {f \in {Run(a, n) : a \in P, n \in 0..MaxLen} : \A i \in 1..Len(f) : f[i] \in P}

\* Option<T>
None == <<>>
Some(x) == <<x>>

\* enum Point<P>
Regular(p) == [kind |-> "Regular", p |-> p]
Blank(p) == [kind |-> "Blank", p |-> p]

\* ---------------------------------------------------------------- state
VARIABLES
    frame,              \* Streamer.frame
    last_point,         \* Streamer.last_point
    blank_last_point,   \* Streamer.blank_last_point
    next_start,         \* Streamer.next_start
    points,             \* the live Points' borrowed slice: None when no Points is alive
    fresh,              \* history: the live Points has not been pulled from yet
    resumed,            \* history: some pull continued the previous pull's stream from a new Points
    log                 \* history: the operations performed, with each pull's result

vars == <<frame, last_point, blank_last_point, next_start, points, fresh, resumed, log>>

\* ------------------------------------------------------------ Streamer
from_frame(f) ==
    [frame |-> f, last_point |-> None, blank_last_point |-> FALSE, next_start |-> 0]

new == from_frame(<<>>)

\* Faulty variant: submit_frame without the index reset.
submit_frame_keeps_index(s, f) ==
    [s EXCEPT !.frame = f, !.blank_last_point = TRUE]

\* Faulty variant: submit_frame without the pending blank.
submit_frame_no_blank(s, f) ==
    [s EXCEPT !.frame = f, !.next_start = 0]

\* Faulty variant: the new frame appended to the old one.
submit_frame_appends(s, f) ==
    [s EXCEPT !.frame = s.frame \o f, !.next_start = 0, !.blank_last_point = TRUE]

\* Faulty variant: submit_frame also forgetting the last point.
submit_frame_clears_last(s, f) ==
    [s EXCEPT !.frame = f, !.next_start = 0, !.blank_last_point = TRUE,
              !.last_point = None]

submit_frame(s, f) ==
    [s EXCEPT !.frame = f, !.next_start = 0, !.blank_last_point = TRUE]

\* Faulty variant: next_points restarting from index 0.
next_points_restarts(s) ==
    [last_point |-> s.last_point,
     blank_last_point |-> s.blank_last_point,
     points |-> s.frame,
     next_start |-> 0]

\* Faulty variant: next_points consuming the pending blank.
next_points_clears_blank(s) ==
    [last_point |-> s.last_point,
     blank_last_point |-> FALSE,
     points |-> s.frame,
     next_start |-> s.next_start]

\* The Points handle: three references into the Streamer and a slice of frame.
next_points(s) ==
    [last_point |-> s.last_point,
     blank_last_point |-> s.blank_last_point,
     points |-> s.frame,
     next_start |-> s.next_start]

\* -------------------------------------------------------- Points::next
\* Faulty variant: emptiness test off by one.
is_empty_off_by_one(pts) == Len(pts) <= 1

\* self.points.is_empty()
is_empty(pts) == Len(pts) = 0

\* Faulty variant: wrap without the index reset.
wrap_keeps_index(it) == [it EXCEPT !.blank_last_point = TRUE]

\* Faulty variant: wrap without the pending blank.
wrap_no_blank(it) == [it EXCEPT !.next_start = 0]

\* The last point was the last of the frame: signal for a blank.
wrap(it) == [it EXCEPT !.blank_last_point = TRUE, !.next_start = 0]

\* Faulty variant: last_point recorded only the first time.
regular_keeps_first(it, ix) ==
    LET p == it.points[ix + 1]
    IN [it |-> [it EXCEPT !.next_start = ix + 1,
                          !.last_point = IF it.last_point = None
                                         THEN Some(p) ELSE it.last_point],
        ret |-> Some(Regular(p))]

\* Faulty variant: the point read at index 0 instead of ix.
regular_from_start(it, ix) ==
    LET p == it.points[1]
    IN [it |-> [it EXCEPT !.next_start = ix + 1, !.last_point = Some(p)],
        ret |-> Some(Regular(p))]

\* Faulty variant: the index advanced by two.
regular_skips_one(it, ix) ==
    LET p == it.points[ix + 1]
    IN [it |-> [it EXCEPT !.next_start = ix + 2, !.last_point = Some(p)],
        ret |-> Some(Regular(p))]

\* Faulty variant: the point emitted is not recorded as last_point.
regular_forgets(it, ix) ==
    LET p == it.points[ix + 1]
    IN [it |-> [it EXCEPT !.next_start = ix + 1],
        ret |-> Some(Regular(p))]

\* Faulty variant: the blank for the wrap signalled with the frame's last point.
regular_signals_blank(it, ix) ==
    LET p == it.points[ix + 1]
    IN [it |-> [it EXCEPT !.next_start = ix + 1, !.last_point = Some(p),
                          !.blank_last_point = (ix + 1 >= Len(it.points))],
        ret |-> Some(Regular(p))]

\* Return a regular point from the current index.
regular(it, ix) ==
    LET p == it.points[ix + 1]
    IN [it |-> [it EXCEPT !.next_start = ix + 1, !.last_point = Some(p)],
        ret |-> Some(Regular(p))]

\* Faulty variant: a blank of the frame's first point when there is no last point.
blank_of_nothing(it) ==
    IF it.last_point # None THEN Some(Blank(it.last_point[1]))
    ELSE IF it.points # <<>> THEN Some(Blank(it.points[1]))
    ELSE None

\* if let Some(p) = self.last_point.clone() { return Some(Point::Blank(p)) }
blank(it) ==
    IF it.last_point # None THEN Some(Blank(it.last_point[1])) ELSE None

\* One call of Points::next: the loop is unrolled by recursion, n counts the
\* iterations already run.
RECURSIVE next(_, _)
next(it, n) ==
    LET cleared == IF it.blank_last_point
                   THEN [it EXCEPT !.blank_last_point = FALSE]
                   ELSE it
    IN IF it.blank_last_point /\ blank(cleared) # None
       THEN [it |-> cleared, ret |-> blank(cleared), iters |-> n + 1]
       ELSE IF is_empty(cleared.points)
       THEN [it |-> cleared, ret |-> None, iters |-> n + 1]
       ELSE LET ix == cleared.next_start
                len == Len(cleared.points)
            IN IF ix >= len
               THEN next(wrap(cleared), n + 1)
               ELSE LET r == regular(cleared, ix)
                    IN [it |-> r.it, ret |-> r.ret, iters |-> n + 1]

\* ---------------------------------------------------------------- actions
Streamer ==
    [frame |-> frame, last_point |-> last_point,
     blank_last_point |-> blank_last_point, next_start |-> next_start]

\* A log entry; iters is the number of loop iterations a pull ran.
Entry(op, f, r, n) == [op |-> op, frame |-> f, ret |-> r, iters |-> n]

Init ==
    \E f \in Frames :
        LET s == IF f = <<>> THEN new ELSE from_frame(f)
        IN /\ frame = s.frame
           /\ last_point = s.last_point
           /\ blank_last_point = s.blank_last_point
           /\ next_start = s.next_start
           /\ points = None
           /\ fresh = FALSE
           /\ resumed = FALSE
           /\ log = <<Entry("from_frame", f, None, 0)>>

NumSubmits == Cardinality({i \in 1..Len(log) : log[i].op = "submit_frame"})

\* Streamer::submit_frame takes &mut self: no Points may be alive.
SubmitFrame ==
    /\ points = None
    /\ Len(log) <= MaxOps
    /\ NumSubmits < MaxSubmits
    /\ \E f \in Frames :
        LET s == submit_frame(Streamer, f)
        IN /\ frame' = s.frame
           /\ last_point' = s.last_point
           /\ blank_last_point' = s.blank_last_point
           /\ next_start' = s.next_start
           /\ log' = Append(log, Entry("submit_frame", f, None, 0))
    /\ UNCHANGED <<points, fresh, resumed>>

\* Streamer::next_points takes &mut self: no other Points may be alive.
NextPoints ==
    /\ points = None
    /\ LET it == next_points(Streamer)
       IN /\ points' = Some(it.points)
          /\ last_point' = it.last_point
          /\ blank_last_point' = it.blank_last_point
          /\ next_start' = it.next_start
    /\ fresh' = TRUE
    /\ UNCHANGED <<frame, resumed, log>>

\* One pull from the live Points: Points::next writes through its references.
Pull ==
    /\ points # None
    /\ Len(log) <= MaxOps
    /\ LET it == [last_point |-> last_point,
                  blank_last_point |-> blank_last_point,
                  points |-> points[1],
                  next_start |-> next_start]
           r == next(it, 0)
       IN /\ last_point' = r.it.last_point
          /\ blank_last_point' = r.it.blank_last_point
          /\ next_start' = r.it.next_start
          /\ log' = Append(log, Entry("pull", <<>>, r.ret, r.iters))
    /\ fresh' = FALSE
    /\ resumed' = (resumed \/ (fresh /\ log[Len(log)].op = "pull"))
    /\ UNCHANGED <<frame, points>>

\* The Points goes out of scope and its borrows end.
DropPoints ==
    /\ points # None
    /\ points' = None
    /\ fresh' = FALSE
    /\ UNCHANGED <<frame, last_point, blank_last_point, next_start, resumed, log>>

Next == SubmitFrame \/ NextPoints \/ Pull \/ DropPoints

Spec == Init /\ [][Next]_vars

\* ------------------------------------------------------- reading the log
\* The log grows by one entry per submit_frame call and per pull, so every
\* operation is the last entry of the log in the state right after it: a
\* formula about "the operation just performed" that holds in every reachable
\* state holds of every operation of every run.
Last == Len(log)
Pulls == {i \in 1..Len(log) : log[i].op = "pull"}
Submits == {i \in 1..Len(log) : log[i].op = "submit_frame"}
IsRegular(i) == i \in Pulls /\ log[i].ret # None /\ log[i].ret[1].kind = "Regular"
IsBlank(i) == i \in Pulls /\ log[i].ret # None /\ log[i].ret[1].kind = "Blank"
IsItem(i) == i \in Pulls /\ log[i].ret # None

Max(S) == CHOOSE x \in S : \A y \in S : y <= x

\* The entry that set the frame in effect at entry i (the constructor is entry 1).
FrameSetter(i) == Max({j \in 1..i : log[j].op # "pull"})
FrameAt(i) == log[FrameSetter(i)].frame

\* Pulls made since the frame in effect at entry i was set, up to and excluding i.
PullsSince(i) == Cardinality({j \in Pulls : FrameSetter(i) < j /\ j < i})

RegularsBefore(i) == {j \in 1..(i - 1) : IsRegular(j)}
\* The payload of the most recently emitted Regular point before entry i.
LastRegular(i) == log[Max(RegularsBefore(i))].ret[1].p

ItemsBefore(i) == {j \in 1..(i - 1) : IsItem(j)}

\* The items emitted so far, in order.
RECURSIVE ItemsUpTo(_)
ItemsUpTo(i) ==
    IF i = 0 THEN <<>>
    ELSE IF IsItem(i) THEN Append(ItemsUpTo(i - 1), log[i].ret[1])
    ELSE ItemsUpTo(i - 1)
Emitted == ItemsUpTo(Len(log))

Frame0 == log[1].frame
RegularsOf(f) == [i \in 1..Len(f) |-> Regular(f[i])]

\* ------------------------------------------------------------------ C1
\* C1: with no submit_frame, the k-th item pulled from from_frame(F), F of
\* length N >= 1, is Regular(F[k mod (N+1)]) when k mod (N+1) < N and
\* Blank(F[N-1]) when k mod (N+1) = N, however the pulls are split over
\* next_points calls. (Every pull so far returned an item, so the pull just
\* made is item k = number of pulls - 1.)
C1_CyclicTraversal ==
    (Submits = {} /\ Frame0 # <<>> /\ Last \in Pulls) =>
        LET N == Len(Frame0)
            k == Cardinality(Pulls) - 1
        IN log[Last].ret = IF k % (N + 1) < N
                           THEN Some(Regular(Frame0[(k % (N + 1)) + 1]))
                           ELSE Some(Blank(Frame0[N]))

\* Two full cycles of a two-point frame, pulled through more than one Points.
C1_Witness ==
    /\ Submits = {}
    /\ Len(Frame0) = 2
    /\ Len(Emitted) = 6
    /\ resumed

\* ------------------------------------------------------------------ C2
\* C2 as stated: the 2N items pulled from a fresh from_frame(F) are the N
\* points of F, a Blank of the last point, and the N points of F again.
C2_Original ==
    (Submits = {} /\ Frame0 # <<>> /\ Cardinality(Pulls) = 2 * Len(Frame0)) =>
        Emitted = RegularsOf(Frame0) \o <<Blank(Frame0[Len(Frame0)])>> \o RegularsOf(Frame0)

\* C2 amended: that sequence has 2N+1 items; it is what 2N+1 pulls yield, and
\* 2N pulls yield its first 2N items.
C2_TwoCycles ==
    (Submits = {} /\ Frame0 # <<>>) =>
        LET N == Len(Frame0)
            full == RegularsOf(Frame0) \o <<Blank(Frame0[N])>> \o RegularsOf(Frame0)
        IN /\ Cardinality(Pulls) = 2 * N + 1 => Emitted = full
           /\ Cardinality(Pulls) = 2 * N => Emitted = SubSeq(full, 1, 2 * N)

C2_Witness ==
    /\ Submits = {}
    /\ Len(Frame0) = 2
    /\ Cardinality(Pulls) = 5
    /\ Len(Emitted) = 5

\* ------------------------------------------------------------------ C3
\* C3: when submit_frame(F2) is called after a Regular point was emitted, p
\* being the most recent one, the next pull returns Blank(p), the pulls after
\* it return Regular(F2[0]), Regular(F2[1]), ... in order, and if F2 is empty
\* every pull after the Blank returns no item. (Stated of the pull just made,
\* the j-th since the submit_frame.)
C3_BlankThenNewFrame ==
    Last \in Pulls =>
        LET s == FrameSetter(Last)
            j == PullsSince(Last)
            F2 == log[s].frame
        IN (s \in Submits /\ RegularsBefore(s) # {}) =>
            /\ j = 0 => log[Last].ret = Some(Blank(LastRegular(s)))
            /\ (j >= 1 /\ j <= Len(F2)) => log[Last].ret = Some(Regular(F2[j]))
            /\ (j >= 1 /\ F2 = <<>>) => log[Last].ret = None

\* A submit_frame right after a wrap Blank, then the Blank and both points of F2.
C3_Witness ==
    \E s \in Submits :
        /\ s >= 2 /\ IsBlank(s - 1)
        /\ Len(log[s].frame) = 2
        /\ LastRegular(s) # log[s].frame[1]
        /\ Len(log) = s + 3
        /\ \A i \in (s + 1)..(s + 3) : i \in Pulls

\* ------------------------------------------------------------------ C4
\* C4: when submit_frame(F), F non-empty, is called on a Streamer that has not
\* emitted a Regular point, the next pull returns Regular(F[0]) and no Blank,
\* and that pull leaves blank_last_point false.
C4_NoBlankBeforeFirstPoint ==
    (Last \in Pulls /\ (Last - 1) \in Submits /\ RegularsBefore(Last) = {}
            /\ log[Last - 1].frame # <<>>) =>
        /\ log[Last].ret = Some(Regular(log[Last - 1].frame[1]))
        /\ ~blank_last_point

\* Two submissions on a Streamer created empty, then the first pull.
C4_Witness ==
    /\ Last = 4
    /\ Last \in Pulls
    /\ Submits = {2, 3}
    /\ Len(log[3].frame) = 2
    /\ log[Last].ret # None

\* ------------------------------------------------------------------ C5
\* C5 as stated: no two consecutively emitted items are both Blank. (Stated of
\* the item just emitted and the item emitted before it.)
C5_Original ==
    (IsBlank(Last) /\ ItemsBefore(Last) # {}) => ~IsBlank(Max(ItemsBefore(Last)))

\* C5 amended: two consecutively emitted items are both Blank only when
\* submit_frame was called between the two pulls; when submit_frame is not
\* called between two consecutive emissions, they are not both Blank.
C5_NoDoubleBlankWithoutSubmit ==
    (IsBlank(Last) /\ ItemsBefore(Last) # {}) =>
        LET prev == Max(ItemsBefore(Last))
        IN IsBlank(prev) => \E m \in (prev + 1)..(Last - 1) : m \in Submits

\* Two Blanks emitted in a row, a submit_frame having come between them.
C5_Witness ==
    /\ IsBlank(Last)
    /\ ItemsBefore(Last) # {}
    /\ IsBlank(Max(ItemsBefore(Last)))

\* ------------------------------------------------------------------ C6
\* C6: every Blank(p) emitted carries the payload of the most recently emitted
\* Regular point, so no Blank is emitted before the first Regular point.
C6_BlankCarriesLastRegular ==
    IsBlank(Last) =>
        /\ RegularsBefore(Last) # {}
        /\ log[Last].ret[1].p = LastRegular(Last)

\* A Blank emitted after a submit_frame whose points differ from the blanked one.
C6_Witness ==
    /\ IsBlank(Last)
    /\ (Last - 1) \in Submits
    /\ log[Last - 1].frame # <<>>
    /\ \A k \in 1..Len(log[Last - 1].frame) : log[Last - 1].frame[k] # log[Last].ret[1].p
    /\ Cardinality(RegularsBefore(Last)) >= 2

\* ------------------------------------------------------------------ C7
\* C7 as stated: with an empty frame, a pull never returns an item.
C7_Original ==
    (Last \in Pulls /\ FrameAt(Last) = <<>>) => log[Last].ret = None

\* C7 amended: with an empty frame a pull returns no item, except the first
\* pull after a submit_frame on a Streamer that has emitted a Regular point,
\* which returns the pending Blank of that point.
C7_EmptyFrameYieldsNothing ==
    (Last \in Pulls /\ FrameAt(Last) = <<>>) =>
        IF (Last - 1) \in Submits /\ RegularsBefore(Last) # {}
        THEN log[Last].ret = Some(Blank(LastRegular(Last)))
        ELSE log[Last].ret = None

\* An empty frame pulled three times, through more than one Points: once for
\* the pending Blank, twice for nothing.
C7_Witness ==
    /\ Last >= 5
    /\ FrameAt(Last) = <<>>
    /\ IsBlank(Last - 2)
    /\ (Last - 1) \in Pulls /\ Last \in Pulls
    /\ log[Last].ret = None
    /\ resumed

\* ------------------------------------------------------------------ C8
\* The reference run: the same submit_frame calls and pulls, with one Points
\* per frame that is never dropped between pulls. ReferenceHandle(i) is that
\* Points after the first i operations of the log.
StreamerOf(it) ==
    [frame |-> it.points, last_point |-> it.last_point,
     blank_last_point |-> it.blank_last_point, next_start |-> it.next_start]

RECURSIVE ReferenceHandle(_)
ReferenceHandle(i) ==
    IF i = 1 THEN next_points(from_frame(log[1].frame))
    ELSE IF log[i].op = "submit_frame"
    THEN next_points(submit_frame(StreamerOf(ReferenceHandle(i - 1)), log[i].frame))
    ELSE next(ReferenceHandle(i - 1), 0).it

ReferenceRet(i) == next(ReferenceHandle(i - 1), 0).ret

\* C8: the items emitted do not depend on how the pulls are split over
\* next_points calls: the pull just made returns what the same pull returns in
\* the reference run, the Streamer is in the state the reference run is in,
\* and on a fresh frame of length N the pull after K < N pulls returns
\* Regular(F[K]) whichever Points it is made from.
C8_SplitIndependent ==
    /\ Last \in Pulls => log[Last].ret = ReferenceRet(Last)
    /\ Streamer = StreamerOf(ReferenceHandle(Last))
    /\ (Last \in Pulls /\ Submits = {} /\ Last - 2 < Len(Frame0)) =>
            log[Last].ret = Some(Regular(Frame0[Last - 1]))

\* One point pulled, the Points dropped, and the second point pulled from a new one.
C8_Witness ==
    /\ Len(log) = 3
    /\ Pulls = {2, 3}
    /\ resumed
    /\ Len(Frame0) = 2
    /\ log[3].ret = Some(Regular(Frame0[2]))

\* ------------------------------------------------------------------ C9
\* C9: between operations 0 <= next_start <= frame.len(), also after
\* submit_frame replaces the frame with a shorter or empty one.
C9_NextStartInRange ==
    /\ next_start \in Nat
    /\ next_start <= Len(frame)

\* submit_frame has just replaced a fully traversed two-point frame by a shorter one.
C9_Witness ==
    /\ Len(log) >= 4
    /\ Len(log) \in Submits
    /\ IsRegular(Len(log) - 1)
    /\ IsRegular(Len(log) - 2)
    /\ Len(frame) <= 1

\* ----------------------------------------------------------------- C10
\* C10: while the frame is non-empty, every pull returns an item.
C10_NonEmptyFrameAlwaysYields ==
    (Last \in Pulls /\ FrameAt(Last) # <<>>) => log[Last].ret # None

\* A wrap Blank pulled from a frame that was submitted, and an item after it.
C10_Witness ==
    /\ IsItem(Last)
    /\ IsBlank(Last - 1)
    /\ FrameSetter(Last) \in Submits
    /\ PullsSince(Last) >= 3

\* ----------------------------------------------------------------- C11
\* The step just taken is a submit_frame call / a pull.
IsSubmitStep == Len(log') = Len(log) + 1 /\ log'[Len(log')].op = "submit_frame"
IsPullStep == Len(log') = Len(log) + 1 /\ log'[Len(log')].op = "pull"

\* C11: submit_frame(F) replaces the frame with F, sets next_start to 0 and
\* blank_last_point to true whatever they were, leaves last_point unchanged
\* and emits no item.
C11_SubmitFrameEffect ==
    [][IsSubmitStep =>
        /\ frame' = log'[Len(log')].frame
        /\ next_start' = 0
        /\ blank_last_point' = TRUE
        /\ last_point' = last_point
        /\ log'[Len(log')].ret = None
        /\ Emitted' = Emitted]_vars

\* submit_frame called with a last point recorded and the old frame part-way
\* traversed, the flag already pending or not.
C11_Witness ==
    /\ Last \in Submits
    /\ IsRegular(Last - 1)
    /\ Len(FrameAt(Last - 1)) = 2
    /\ PullsSince(Last - 1) = 0
    /\ last_point # None
    /\ frame # FrameAt(Last - 1)

\* ----------------------------------------------------------------- C12
\* The Streamer's fields and the items produced so far.
Observable == <<frame, last_point, blank_last_point, next_start, log>>

C13_AtMostTwoIterations ==
    Last \in Pulls =>
        /\ log[Last].iters \in 1..2
        /\ log[Last].iters = 2 <=>
            (IsBlank(Last) /\ (Last - 1) \in Pulls /\ FrameAt(Last) # <<>>
                /\ PullsSince(Last) >= Len(FrameAt(Last)) /\ next_start = 0)

\* A wrap pull after a frame was submitted: two iterations.
C13_Witness ==
    /\ Last \in Pulls
    /\ log[Last].iters = 2
    /\ FrameSetter(Last) \in Submits
    /\ Len(frame) = 2

\* ----------------------------------------------------------------- C14
\* C14: last_point is None exactly when no Regular point has been emitted,
\* and otherwise holds the most recently emitted Regular point; a Blank, a
\* pull that returns no item and submit_frame do not change it, so once set
\* it is never None again.
C14_LastPointIsLastRegular ==
    /\ last_point = None <=> RegularsBefore(Last + 1) = {}
    /\ RegularsBefore(Last + 1) # {} => last_point = Some(LastRegular(Last + 1))

C14_LastPointKept ==
    [][/\ last_point # None => last_point' # None
       /\ (IsSubmitStep \/ (IsPullStep /\ ~IsRegular(Len(log))'))
            => last_point' = last_point]_vars

\* A point emitted, then a Blank, a submit_frame of an empty frame, a Blank
\* and a pull that returns nothing: last_point still holds the point.
C14_Witness ==
    /\ Last \in Pulls
    /\ log[Last].ret = None
    /\ IsBlank(Last - 1)
    /\ (Last - 2) \in Submits
    /\ IsBlank(Last - 3)
    /\ last_point # None

\* ----------------------------------------------------------------- C15
\* Some pull has returned no item.
NonePulls == {j \in Pulls : log[j].ret = None}

\* C15 as stated: after a pull that returned no item, every pull returns no
\* item until submit_frame is called with a non-empty frame.
C15_Original ==
    Last \in Pulls =>
        \A j \in NonePulls :
            (j < Last /\ \A m \in (j + 1)..(Last - 1) :
                            ~(m \in Submits /\ log[m].frame # <<>>))
                => log[Last].ret = None

\* C15 amended: after a pull that returned no item, every pull returns no
\* item and changes no state until submit_frame is called, with any frame;
\* the first pull after a submit_frame of a non-empty frame returns an item
\* again.
C15_ExhaustedUntilSubmit ==
    [][IsPullStep =>
        /\ Last \in NonePulls =>
            /\ log'[Len(log')].ret = None
            /\ UNCHANGED <<frame, last_point, blank_last_point, next_start>>
        /\ (Last \in Submits /\ frame # <<>> /\ NonePulls # {}) =>
            log'[Len(log')].ret # None]_vars

\* Two pulls that return nothing, the second from a new Points, then a
\* non-empty frame is submitted and the next pull returns an item.
C15_Witness ==
    /\ Last >= 5
    /\ IsItem(Last)
    /\ (Last - 1) \in Submits
    /\ (Last - 2) \in NonePulls
    /\ (Last - 3) \in NonePulls
    /\ resumed

\* ----------------------------------------------------------------- C16
\* C16: a pull that yields Regular(x) yields x = frame[i], i being next_start
\* before the pull, and leaves next_start = i + 1; a pull that yields a Blank
\* because a submit_frame is pending (blank_last_point set before the pull)
\* leaves next_start and last_point unchanged and only clears
\* blank_last_point.
C16_PullEffect ==
    [][IsPullStep =>
        LET ret == log'[Len(log')].ret
        IN /\ (ret # None /\ ret[1].kind = "Regular") =>
                /\ next_start < Len(frame)
                /\ ret[1].p = frame[next_start + 1]
                /\ next_start' = next_start + 1
           /\ (ret # None /\ ret[1].kind = "Blank" /\ blank_last_point) =>
                /\ next_start' = next_start
                /\ last_point' = last_point
                /\ frame' = frame
                /\ blank_last_point' = FALSE]_vars

\* The second point of a submitted frame pulled after the pending Blank.
C16_Witness ==
    /\ IsRegular(Last)
    /\ next_start = 2
    /\ IsBlank(Last - 2)
    /\ (Last - 3) \in Submits
    /\ log[Last].ret[1].p = frame[2]

\* ----------------------------------------------------------------- C17
\* C17: after every pull, whatever it returned, blank_last_point is false;
\* between operations the flag is true only after a submit_frame call and
\* before the next pull, so a wrap leaves no pending blank behind.
C17_FlagOnlyAfterSubmit ==
    blank_last_point <=> Last \in Submits

\* A wrap Blank has just been pulled.
C17_Witness ==
    /\ IsBlank(Last)
    /\ (Last - 1) \in Pulls
    /\ log[Last].iters = 2
    /\ ~blank_last_point

\* ----------------------------------------------------------------- C18
\* C18: submit_frame(F1) directly followed by submit_frame(F2) leaves the
\* Streamer in the state submit_frame(F2) alone leaves it in, so the pulls
\* that follow return at most one Blank (of the last point emitted before
\* both calls) and then the points of F2 from its first; no point of F1 is
\* emitted.
C18_SubmitsCollapse ==
    /\ (Last \in Submits /\ (Last - 1) \in Submits) =>
        Streamer = submit_frame(StreamerOf(ReferenceHandle(Last - 2)), log[Last].frame)
    /\ (Last \in Pulls /\ FrameSetter(Last) \in Submits
            /\ (FrameSetter(Last) - 1) \in Submits) =>
        LET s == FrameSetter(Last)
            F2 == log[s].frame
            k == IF RegularsBefore(s) # {} THEN PullsSince(Last) ELSE PullsSince(Last) + 1
        IN /\ k = 0 => log[Last].ret = Some(Blank(LastRegular(s)))
           /\ (k >= 1 /\ k <= Len(F2)) => log[Last].ret = Some(Regular(F2[k]))
           /\ (k >= 1 /\ F2 = <<>>) => log[Last].ret = None

\* A point emitted, two frames submitted in a row, then the Blank and the
\* first point of the second frame, which the first frame does not start with.
C18_Witness ==
    /\ Last >= 6
    /\ IsRegular(Last)
    /\ IsBlank(Last - 1)
    /\ (Last - 2) \in Submits
    /\ (Last - 3) \in Submits
    /\ log[Last - 3].frame # <<>>
    /\ log[Last - 3].frame[1] # log[Last - 2].frame[1]
    /\ log[Last].ret[1].p = log[Last - 2].frame[1]

====
